---- MODULE Spec2Model ----
(***************************************************************************)
(* MQTT-Alert: the alert evaluation and dispatch engine.                   *)
(*                                                                         *)
(*   Alert         (src/mqttalert/alerts.py)  one rule: topic, condition,  *)
(*                 email, the two periods and the two time stamps          *)
(*   AlertManager  (src/mqttalert/alerts.py)  the ordered list of alerts   *)
(*                 and the Gmail sink                                      *)
(*   Mqtt          (src/mqttemail/mqtt.py)    the inbound handler that     *)
(*                 decodes a payload and calls the manager                 *)
(*                                                                         *)
(* Python strings are sequences of one-character strings, so that slicing, *)
(* concatenation and prefixes are what they are in the program.  Time is   *)
(* the reading of dt.datetime.now(), counted in ticks.                     *)
(***************************************************************************)
EXTENDS Integers, Sequences, FiniteSets, TLC

\* The last clock reading the model explores.
MaxClock == 5

\* Clock ticks per second: strftime("%Y-%m-%d, %H:%M:%S") keeps whole seconds.
TicksPerSecond == 2

\* The longest list of alerts the editing of a manager builds.
MaxAlerts == 2

\* Python's None, distinct from every string (a string's elements are
\* single characters).
None == <<"None">>

---------------------------------------------------------------------------
(* Strings *)

IdentChars == {"t", "s", "o", "e", "l", "f", "i", "n", "_", "1", "3", "5"}
DigitChars == {"1", "3", "5"}

\* The topics, field names, addresses and conditions the model draws from.
TopicA    == <<"d", "/", "a">>
TopicB    == <<"d", "/", "b">>
TopicHash == <<"d", "/", "#">>
Empty     == << >>
Addr      == <<"m">>
Addr2     == <<"n">>
FieldT    == <<"t">>
FieldS    == <<"s">>
CondTlt3  == <<"t", "<", "3">>
CondSeqO  == <<"s", "=", "=", "o">>
CondTeq3  == <<"t", "=", "3">>
CondLt3   == <<"<", "3">>
CondT3    == <<"t", "3">>

\* The text of a call of the alert's own constructor: "self.__init__()".
SelfInit  == <<"s", "e", "l", "f", ".", "_", "_", "i", "n", "i", "t", "_", "_", "(", ")">>

\* int(s) of a string of digits.
RECURSIVE DigitsValue(_)
DigitsValue(s) ==
    IF Len(s) = 0 THEN 0
    ELSE LET c == s[Len(s)]
             v == CASE c = "1" -> 1 [] c = "3" -> 3 [] c = "5" -> 5 [] OTHER -> 0
         IN  10 * DigitsValue(SubSeq(s, 1, Len(s) - 1)) + v

\* str(n) of a non-negative integer.
RECURSIVE IntStr(_)
IntStr(n) ==
    LET d == n % 10
        c == CASE d = 0 -> "0" [] d = 1 -> "1" [] d = 2 -> "2" [] d = 3 -> "3"
               [] d = 4 -> "4" [] d = 5 -> "5" [] d = 6 -> "6" [] d = 7 -> "7"
               [] d = 8 -> "8" [] OTHER -> "9"
    IN  IF n < 10 THEN <<c>> ELSE IntStr(n \div 10) \o <<c>>

\* A message value is an int or a str.
IntVal(n) == [kind |-> "int", n |-> n, s |-> Empty]
StrVal(s) == [kind |-> "str", n |-> 0, s |-> s]

\* val = message.data[...]; if not isinstance(val, str): val = str(val)
ValStr(v) == IF v.kind = "str" THEN v.s ELSE IntStr(v.n)

\* re.search(r"[^_a-zA-Z0-9]", value): the 1-based position of the first
\* character that is not an identifier character, 0 when there is none.
FirstNonIdent(s) ==
    LET hits == {i \in 1..Len(s) : s[i] \notin IdentChars}
    IN  IF hits = {} THEN 0 ELSE CHOOSE i \in hits : \A j \in hits : i <= j

\* The comparison operator a string starts with, longest first; Empty when
\* it starts with none.
LeadingOp(s) ==
    IF Len(s) >= 2 /\ SubSeq(s, 1, 2) \in {<<"<", "=">>, <<">", "=">>, <<"=", "=">>, <<"!", "=">>}
    THEN SubSeq(s, 1, 2)
    ELSE IF Len(s) >= 1 /\ s[1] \in {"<", ">"} THEN SubSeq(s, 1, 1)
    ELSE Empty

IsNumber(s) == Len(s) > 0 /\ \A i \in 1..Len(s) : s[i] \in DigitChars
IsName(s)   == Len(s) > 0 /\ s[1] \notin DigitChars /\ \A i \in 1..Len(s) : s[i] \in IdentChars

Compare(op, x, y) ==
    CASE op = <<"<">>       -> x < y
      [] op = <<"<", "=">>  -> x <= y
      [] op = <<">">>       -> x > y
      [] op = <<">", "=">>  -> x >= y
      [] op = <<"=", "=">>  -> x = y
      [] OTHER              -> x # y

\* Python's eval() of "<operand><op><operand>" over the model's alphabet:
\* "true" or "false" for a comparison of two numbers, "raise" for a
\* SyntaxError (no operand, no operator) or a NameError (an operand that is
\* a name: nothing is bound to it).
PyEval(s) ==
    LET i   == FirstNonIdent(s)
        lhs == IF i = 0 THEN s ELSE SubSeq(s, 1, i - 1)
        rst == IF i = 0 THEN Empty ELSE SubSeq(s, i, Len(s))
        op  == LeadingOp(rst)
        rhs == SubSeq(rst, Len(op) + 1, Len(rst))
    IN  IF op = Empty \/ ~(IsNumber(lhs) \/ IsName(lhs)) \/ ~(IsNumber(rhs) \/ IsName(rhs))
        THEN "raise"
        ELSE IF IsName(lhs) \/ IsName(rhs) THEN "raise"
        ELSE IF Compare(op, DigitsValue(lhs), DigitsValue(rhs)) THEN "true" ELSE "false"

---------------------------------------------------------------------------
(* Alert *)

\* The result of a call that returns.
Returned(a) == [raised |-> FALSE, error |-> "", alert |-> a]

\* The result of a call that raises: the object is as the call left it.
Raised(error, a) == [raised |-> TRUE, error |-> error, alert |-> a]

\* Alert.topic setter.
TopicSet(a, value) ==
    IF value = None THEN Raised("TypeError", a)
    ELSE Returned([a EXCEPT !.topic = value])

\* Mutant of ConditionSet: _condition is assigned before the value is
\* looked at.
ConditionSetEarly(a, value) ==
    LET idx == FirstNonIdent(value) - 1
        a1  == [a EXCEPT !.condition = value]
    IN  IF value = None THEN Raised("TypeError", a)
        ELSE IF FirstNonIdent(value) = 0 THEN Raised("AttributeError", a1)
        ELSE IF idx < 1 THEN Raised("ValueError", a1)
        ELSE Returned([a1 EXCEPT !.variable  = SubSeq(value, 1, idx),
                                 !.expr      = SubSeq(value, idx + 1, Len(value))])

\* Alert.condition setter: the alert after the assignment, or raised (the
\* alert is then as it was).  With no character outside the identifier
\* characters re.search returns None, and None.start() raises
\* AttributeError.
ConditionSet(a, value) ==
    LET idx == FirstNonIdent(value) - 1
    IN  IF value = None THEN Raised("TypeError", a)
        ELSE IF FirstNonIdent(value) = 0 THEN Raised("AttributeError", a)
        ELSE IF idx < 1 THEN Raised("ValueError", a)
        ELSE Returned([a EXCEPT !.condition = value,
                                !.variable  = SubSeq(value, 1, idx),
                                !.expr      = SubSeq(value, idx + 1, Len(value))])

\* Alert.email setter.
EmailSet(a, value) ==
    IF value = None THEN Raised("TypeError", a)
    ELSE Returned([a EXCEPT !.email = value])

\* The periods Alert.__init__ sets when it is given none: 60 minutes and
\* 1 day.
PeriodMinimumDefault == 60 * 60 * TicksPerSecond
PeriodMaximumDefault == 24 * 60 * 60 * TicksPerSecond

\* Alert.__init__ with every argument given; t1 and t2 are the two readings
\* of the clock it takes.  condition is None or a string the setter accepts.
AlertInit(topic, condition, email, period_minimum, period_maximum, t1, t2) ==
    LET a0 == [topic |-> topic, condition |-> None, variable |-> None, expr |-> None,
               email |-> email,
               period_minimum |-> period_minimum, period_maximum |-> period_maximum,
               message_last_received |-> t1, message_last_check |-> t2]
    IN  IF condition = None THEN a0 ELSE ConditionSet(a0, condition).alert

\* Alert(topic, condition, email, period_minimum, period_maximum): the new
\* object, or raised by the condition setter (there is no object then).
AlertNew(topic, condition, email, period_minimum, period_maximum, t1, t2) ==
    LET a  == AlertInit(topic, None, email, period_minimum, period_maximum, t1, t2)
        rc == IF condition = None THEN Returned(a) ELSE ConditionSet(a, condition)
    IN  IF rc.raised THEN rc
        ELSE Returned(AlertInit(topic, condition, email, period_minimum, period_maximum, t1, t2))

\* Alert.to_dict()
AlertToDict(a) ==
    [type |-> "dict",
     topic |-> a.topic, condition |-> a.condition, email |-> a.email,
     period_minimum |-> a.period_minimum, period_maximum |-> a.period_maximum]

\* Alert.to_json(): a str, the JSON text of the dictionary with the two
\* periods as the text of their seconds.
AlertToJson(a) == [type |-> "str", json |-> AlertToDict(a)]

\* Alert.from_dict(data) on alert a: the setters in the order of the code,
\* the first that raises ends it.  It has no return statement: its value
\* is None.
AlertFromDict(a, data) ==
    IF data.type # "dict" THEN Raised("TypeError", a)
    ELSE LET r1 == TopicSet(a, data.topic) IN
    IF r1.raised THEN r1
    ELSE LET r2 == ConditionSet(r1.alert, data.condition) IN
    IF r2.raised THEN r2
    ELSE LET r3 == EmailSet(r2.alert, data.email) IN
    IF r3.raised THEN r3
    ELSE Returned([r3.alert EXCEPT !.period_minimum = data.period_minimum,
                                   !.period_maximum = data.period_maximum])

\* Mutant of TopicMismatch: the test for a missing topic is left out.
TopicMismatchNoNone(a, message) == message.topic # a.topic

\* Mutant of TopicMismatch: the comparison is inverted.
TopicMismatchInverted(a, message) == a.topic # None /\ message.topic = a.topic

\* if self.topic is not None: if message.topic != self.topic: return
TopicMismatch(a, message) == a.topic # None /\ message.topic # a.topic

\* Mutant of WithinPeriodMinimum: the period is added to the wrong side.
WithinPeriodMinimumNoEnd(a, now) == now - a.message_last_check < a.period_minimum + now

\* Mutant of WithinPeriodMinimum: the comparison is inverted.
WithinPeriodMinimumInverted(a, now) == now - a.message_last_check > a.period_minimum

\* if now - self.message_last_check < self.period_minimum: return
WithinPeriodMinimum(a, now) == now - a.message_last_check < a.period_minimum

\* Mutant of MarkChecked: the assignment is left out.
MarkCheckedNever(a, now) == a

\* self._message_last_check = now, once the period check has passed.
MarkChecked(a, now) == [a EXCEPT !.message_last_check = now]

\* Mutant of MarkReceived: the reading is cut to the whole second, as the
\* message's timestamp is.
MarkReceivedTruncated(a, now) ==
    [a EXCEPT !.message_last_received = (now \div TicksPerSecond) * TicksPerSecond]

\* Mutant of MarkReceived: both time stamps are set.
MarkReceivedBoth(a, now) ==
    [a EXCEPT !.message_last_received = now, !.message_last_check = now]

\* Mutant of MarkReceived: the assignment is left out.
MarkReceivedNever(a, now) == a

\* self._message_last_received = now, once the topic check has passed.
MarkReceived(a, now) == [a EXCEPT !.message_last_received = now]

\* Mutant of NoEmail: the test is left out.
NoEmailNever(a) == FALSE

\* if not self.email: return
NoEmail(a) == a.email = None \/ a.email = Empty

\* Mutant of EmailSend: the topic is passed where the address belongs.
EmailSendToTopic(a, message, val) ==
    [to      |-> a.topic,
     body    |-> [topic |-> message.topic, variable |-> a.variable, val |-> val, expr |-> a.expr],
     subject |-> [topic |-> a.topic, condition |-> a.condition]]

\* gmail.email_send(self.email, body, subject=subject): the call, with the
\* parts the subject and the body are formatted from.
EmailSend(a, message, val) ==
    [to      |-> a.email,
     body    |-> [topic |-> message.topic, variable |-> a.variable, val |-> val, expr |-> a.expr],
     subject |-> [topic |-> a.topic, condition |-> a.condition]]

\* What eval(s) does to the alert besides giving a value.  eval runs s in
\* the frame of Alert.check, where self is the alert: a text that starts
\* with the call self.__init__() runs the constructor on it, with no
\* arguments, before the comparison (of the None the call returns) raises.
EvalEffect(a, s, now) ==
    IF Len(s) >= Len(SelfInit) /\ SubSeq(s, 1, Len(SelfInit)) = SelfInit
    THEN AlertInit(None, None, None, PeriodMinimumDefault, PeriodMaximumDefault, now, now)
    ELSE a

\* The exits of Alert.check that raise.
RaisingPaths == {"MissingField", "EvalError", "SendFailed"}

\* Alert.check(message, gmail) at clock reading now: the alert afterwards,
\* the exit taken and the calls of Gmail.email_send made.  gmail is whether
\* the manager has a Gmail client, sendOk whether Gmail.email_send returns
\* (TRUE) or raises (FALSE).
check(a, message, now, gmail, sendOk) ==
    IF TopicMismatch(a, message) THEN [alert |-> a, path |-> "NoMatch", calls |-> << >>]
    ELSE LET a1 == MarkReceived(a, now) IN
    IF WithinPeriodMinimum(a1, now) THEN [alert |-> a1, path |-> "Suppressed", calls |-> << >>]
    ELSE LET a2 == MarkChecked(a1, now) IN
    IF a2.condition = None THEN [alert |-> a2, path |-> "NoCondition", calls |-> << >>]
    ELSE IF a2.variable \notin DOMAIN message.data
         THEN [alert |-> a2, path |-> "MissingField", calls |-> << >>]
    ELSE LET val == ValStr(message.data[a2.variable])
             res == PyEval(val \o a2.expr)
             a3  == EvalEffect(a2, val \o a2.expr, now) IN
    IF res = "raise" THEN [alert |-> a3, path |-> "EvalError", calls |-> << >>]
    ELSE IF res = "false" THEN [alert |-> a3, path |-> "ConditionNotMet", calls |-> << >>]
    ELSE IF ~gmail THEN [alert |-> a3, path |-> "NoSink", calls |-> << >>]
    ELSE IF NoEmail(a3) THEN [alert |-> a3, path |-> "NoEmail", calls |-> << >>]
    ELSE IF sendOk THEN [alert |-> a3, path |-> "Sent", calls |-> <<EmailSend(a3, message, val)>>]
    ELSE [alert |-> a3, path |-> "SendFailed", calls |-> <<EmailSend(a3, message, val)>>]

\* What Alert.check returns on each exit: it returns False when the
\* condition is not met and None on every other exit that returns.
ReturnValue(path) ==
    IF path \in RaisingPaths THEN "raise"
    ELSE IF path = "ConditionNotMet" THEN "False" ELSE "None"

---------------------------------------------------------------------------
(* MqttMessage *)

\* dt.datetime.now().strftime("%Y-%m-%d, %H:%M:%S"): the reading cut to the
\* whole second, as the time the string denotes.
Strftime(now) == (now \div TicksPerSecond) * TicksPerSecond

MqttMessage(topic, data, now) == [topic |-> topic, data |-> data, timestamp |-> Strftime(now)]

NoMessage == [topic |-> None, data |-> [f \in {} |-> IntVal(0)], timestamp |-> 0]

---------------------------------------------------------------------------
(* AlertManager *)

\* for alert in self._alerts: alert.check(message, self.gmail)
\* from alert i on.  elapsed[i] is the time that passes before alert i reads
\* the clock, sendOk[i] whether its email_send returns.  An exception leaves
\* the loop: the alerts after it are not checked.  calls0 is the calls of
\* email_send made so far, in the order they were made, each with the alert
\* that made it.
RECURSIVE HandlerFrom(_, _, _, _, _, _, _, _, _, _)
HandlerFrom(i, alerts0, paths0, times0, calls0, now, message, gmail0, elapsed, sendOk) ==
    IF i > Len(alerts0)
    THEN [alerts |-> alerts0, paths |-> paths0, times |-> times0, calls |-> calls0,
          clock |-> now, raised |-> FALSE]
    ELSE LET t  == now + elapsed[i]
             r  == check(alerts0[i], message, t, gmail0, sendOk[i])
             al == [alerts0 EXCEPT ![i] = r.alert]
             ps == [paths0 EXCEPT ![i] = r.path]
             ts == [times0 EXCEPT ![i] = t]
             cs == calls0 \o [k \in 1..Len(r.calls) |-> [alert |-> i, call |-> r.calls[k]]]
         IN  IF r.path \in RaisingPaths
             THEN [alerts |-> al, paths |-> ps, times |-> ts, calls |-> cs,
                   clock |-> t, raised |-> TRUE]
             ELSE HandlerFrom(i + 1, al, ps, ts, cs, t, message, gmail0, elapsed, sendOk)

\* AlertManager._mqtt_message_handler(message)
MqttMessageHandler(alerts0, now, message, gmail0, elapsed, sendOk) ==
    HandlerFrom(1, alerts0, [i \in 1..Len(alerts0) |-> "NotRun"],
                [i \in 1..Len(alerts0) |-> 0], << >>, now, message, gmail0, elapsed, sendOk)

\* The objects a list built by an import holds: None, or an Alert.
NoneObj     == [type |-> "NoneType"]
AlertObj(a) == [type |-> "Alert", alert |-> a]

\* The value of the call Alert().from_dict(data): the method returns
\* nothing.
AlertFromDictValue(a) == NoneObj

\* AlertManager.to_dict()
ManagerToDict(alerts0) ==
    [type |-> "dict", alerts |-> [k \in 1..Len(alerts0) |-> AlertToDict(alerts0[k])]]

\* AlertManager.to_json(): a str, the JSON text of a dictionary whose
\* "alerts" are the strings Alert.to_json() returns.
ManagerToJson(alerts0) ==
    [type |-> "str",
     json |-> [type |-> "dict", alerts |-> [k \in 1..Len(alerts0) |-> AlertToJson(alerts0[k])]]]

\* for alert in data["alerts"]: self.add(Alert().from_dict(alert))
\* from item k on; list0 is self._alerts so far.  An exception ends the loop
\* and leaves the list as it is by then.
RECURSIVE FromDictFrom(_, _, _, _)
FromDictFrom(k, list0, items, now) ==
    IF k > Len(items) THEN [raised |-> FALSE, error |-> "", list |-> list0]
    ELSE LET r == AlertFromDict(AlertInit(None, None, None, PeriodMinimumDefault,
                                          PeriodMaximumDefault, now, now), items[k])
         IN  IF r.raised THEN [raised |-> TRUE, error |-> r.error, list |-> list0]
             ELSE FromDictFrom(k + 1, Append(list0, AlertFromDictValue(r.alert)), items, now)

\* AlertManager.from_dict(data) on a manager whose list is list0.
ManagerFromDict(list0, data, now) ==
    IF data.type # "dict" THEN [raised |-> TRUE, error |-> "TypeError", list |-> list0]
    ELSE FromDictFrom(1, list0, data.alerts, now)

\* AlertManager.from_json(jsonstr): json.loads gives the dictionary, whose
\* "alerts" are still strings.
ManagerFromJson(list0, jsonstr, now) ==
    IF jsonstr.type # "str" THEN [raised |-> TRUE, error |-> "TypeError", list |-> list0]
    ELSE ManagerFromDict(list0, jsonstr.json, now)

\* list.remove(x) on a list of objects that compare by identity: the list
\* without the first entry that is x; ids0 is the identity of each entry.
FirstIndex(ids0, id) == CHOOSE k \in 1..Len(ids0) : ids0[k] = id /\ \A j \in 1..(k - 1) : ids0[j] # id

\* Mutant of Without: every entry that equals entry k goes.
WithoutAll(seq, k) == SelectSeq(seq, LAMBDA x : x # seq[k])

Without(seq, k) == SubSeq(seq, 1, k - 1) \o SubSeq(seq, k + 1, Len(seq))

---------------------------------------------------------------------------
(* State *)

VARIABLES
    alerts,      \* AlertManager._alerts: the Alert objects, in insertion order
    gmail,       \* whether AlertManager._gmail is a Gmail client (TRUE) or None
    clock,       \* the reading dt.datetime.now() returns
    transport,   \* "running", or "crashed" once an exception has left
                 \* Mqtt._on_mqtt_message (loop_forever ends with it)
    message,     \* the MqttMessage last handed to the manager
    delivered,   \* the parity of the number of messages handed to it
    paths,       \* per alert, the exit Alert.check took for that message
    times,       \* per alert, the clock reading Alert.check took for it
    evalLog,     \* per alert, the readings of its last two checks that
                 \* passed the period check (history)
    evalPath,    \* per alert, the exit of its last check that passed the
                 \* period check (history)
    outbox,      \* the calls of Gmail.email_send made for that message, in
                 \* the order they were made, each with the alert that made it
    ids,         \* per entry of _alerts, the identity of the object it holds
    loaded,      \* the _alerts of the fresh manager the last import filled
    other,       \* the other Alert the last Alert.from_dict was called on
    last,        \* the last call that edited, exported or imported: its
                 \* name, arguments and whether and what it raised (history)
    threads      \* per thread that runs Alert.check on the first alert: the
                 \* statement it is at, the reading it took and whether its
                 \* check passed the period check

vars == <<alerts, gmail, clock, transport, message, delivered, paths, times, evalLog, evalPath, outbox,
          ids, loaded, other, last, threads>>

\* The threads; they are idle where the program has one thread only.
Workers == {"w1", "w2"}
Idle    == [w \in Workers |-> [pc |-> "idle", now |-> 0, passed |-> FALSE]]

\* The variables of the editing, the export and the import, and of the
\* threads.
mvars == <<ids, loaded, other, last, threads>>

\* The managers the model starts from: the alerts, each built by
\* Alert.__init__ at clock readings t1, t2 and added with AlertManager.add
\* in this order, and whether a Gmail client is set.
Managers(t1, t2) ==
    { [alerts |-> << AlertInit(TopicA, CondTlt3, Addr, 2, 4, t1, t2),
                     AlertInit(None, None, Addr, 2, 4, t1, t2) >>,
       gmail  |-> TRUE],
      [alerts |-> << AlertInit(TopicHash, CondTlt3, Addr, 2, 4, t1, t2),
                     AlertInit(Empty, CondTlt3, Addr, 2, 4, t1, t2) >>,
       gmail  |-> TRUE],
      [alerts |-> << AlertInit(TopicA, CondTlt3, None, 3, 4, t1, t2),
                     AlertInit(TopicA, CondSeqO, Addr, 0, 4, t1, t2) >>,
       gmail  |-> TRUE],
      [alerts |-> << AlertInit(TopicB, CondTlt3, Addr, 1, 4, t1, t2) >>,
       gmail  |-> FALSE],
      [alerts |-> << AlertInit(TopicB, CondTlt3, Addr, 3, 4, t1, t2),
                     AlertInit(TopicB, CondTlt3, Addr2, 3, 4, t1, t2) >>,
       gmail  |-> TRUE] }

\* The topics the broker delivers: Mqtt.connect subscribes to "device/#",
\* and a published topic holds no wildcard.
MsgTopics == {TopicA, TopicB}

\* The decoded payloads (message.data).
MsgData ==
    { [f \in {} |-> IntVal(0)],
      (FieldT :> IntVal(1)) @@ (FieldS :> StrVal(<<"o">>)),
      (FieldT :> IntVal(5)) }

\* No call yet, and the shape of the record of one.
NoArgs == [topic |-> None, condition |-> None, email |-> None]
NoCall == [op |-> "none", flip |-> 0, args |-> NoArgs, at |-> 0, raised |-> FALSE, error |-> ""]

\* The last two entries of a history with t added.
Last2(log, t) == IF Len(log) < 2 THEN Append(log, t) ELSE <<log[2], t>>

\* The exits of Alert.check on which the period check was passed.
EvaluatedPaths ==
    {"NoCondition", "MissingField", "EvalError", "ConditionNotMet",
     "NoSink", "NoEmail", "Sent", "SendFailed"}

RECURSIVE Sum(_, _)
Sum(f, n) == IF n = 0 THEN 0 ELSE f[n] + Sum(f, n - 1)

Init ==
    /\ \E skew \in 0..1 : \E mgr \in Managers(0, skew) :
         /\ alerts = mgr.alerts
         /\ gmail = mgr.gmail
         /\ clock = skew
    /\ transport = "running"
    /\ message = NoMessage
    /\ delivered = 0
    /\ paths = [i \in 1..Len(alerts) |-> "NotRun"]
    /\ times = [i \in 1..Len(alerts) |-> 0]
    /\ evalLog = [i \in 1..Len(alerts) |-> << >>]
    /\ evalPath = [i \in 1..Len(alerts) |-> "NotRun"]
    /\ outbox = << >>
    /\ ids = [i \in 1..Len(alerts) |-> i]
    /\ loaded = << >>
    /\ other = NoneObj
    /\ last = NoCall
    /\ threads = Idle

\* Time passes between two messages.
Tick ==
    /\ clock < MaxClock
    /\ clock' = clock + 1
    /\ UNCHANGED <<alerts, gmail, transport, message, delivered, paths, times, evalLog, evalPath, outbox>>
    /\ UNCHANGED mvars

\* Mqtt._on_mqtt_message with a payload that is not bytes, or that does not
\* decode as JSON: logged, return.
DropPayload ==
    /\ transport # "crashed"
    /\ UNCHANGED vars

\* Mqtt._on_mqtt_message with a payload that is JSON but no object:
\* MqttMessage.__init__ raises TypeError outside the try blocks.
BadObject ==
    /\ transport # "crashed"
    /\ transport' = "crashed"
    /\ UNCHANGED <<alerts, gmail, clock, message, delivered, paths, times, evalLog, evalPath, outbox>>
    /\ UNCHANGED mvars

\* Mqtt._on_mqtt_message with a JSON object: the message is built and the
\* callback, AlertManager._mqtt_message_handler, runs over the alerts; an
\* exception it raises is caught and logged.  elapsed[i] is the time that
\* passes before alert i reads the clock; failing is the alert whose
\* email_send raises (0: none does).  payloads is the decoded payloads the
\* step draws from.
Handle(topic, data, elapsed, failing) ==
    /\ transport # "crashed"
    /\ clock + Sum(elapsed, Len(alerts)) <= MaxClock
    /\ message' = MqttMessage(topic, data, clock)
    /\ delivered' = 1 - delivered
    /\ \E r \in { MqttMessageHandler(alerts, clock, MqttMessage(topic, data, clock), gmail,
                                     elapsed, [i \in 1..Len(alerts) |-> i # failing]) } :
           /\ alerts' = r.alerts
           /\ paths' = r.paths
           /\ times' = r.times
           /\ clock' = r.clock
           /\ outbox' = r.calls
           /\ evalLog' = [i \in 1..Len(alerts) |->
                            IF r.paths[i] \in EvaluatedPaths
                            THEN Last2(evalLog[i], r.times[i]) ELSE evalLog[i]]
           /\ evalPath' = [i \in 1..Len(alerts) |->
                             IF r.paths[i] \in EvaluatedPaths THEN r.paths[i] ELSE evalPath[i]]
    /\ UNCHANGED <<gmail, transport>>
    /\ UNCHANGED mvars

DeliverFrom(payloads) ==
    \E topic \in MsgTopics, data \in payloads,
       elapsed \in [1..Len(alerts) -> 0..1], failing \in 0..Len(alerts) :
         Handle(topic, data, elapsed, failing)

Deliver == DeliverFrom(MsgData)

Next == Tick \/ DropPayload \/ BadObject \/ Deliver

Spec == Init /\ [][Next]_vars

---------------------------------------------------------------------------
(* Payloads from a publisher that is not trusted *)

\* A decoded payload whose value for the field "t" is the str
\* "self.__init__()".
UntrustedData == { (FieldT :> StrVal(SelfInit)) }

DeliverUntrusted == DeliverFrom(UntrustedData)

NextUntrusted == Tick \/ DeliverUntrusted

SpecUntrusted == Init /\ [][NextUntrusted]_vars

---------------------------------------------------------------------------
(* Editing, exporting and importing a manager *)

\* The arguments the alerts are constructed from.  The conditions: none,
\* two of the form the setter's message asks for, one with "=" for the
\* operator, one with no variable, one with no character but identifier
\* characters.
NewConditions   == {None, CondTlt3, CondSeqO, CondTeq3, CondLt3, CondT3}
NewDestinations == { [topic |-> TopicA, email |-> Addr], [topic |-> None, email |-> None] }

\* The identities of the objects: one more than the list has room for, so
\* that there is always an object that is not in it.
ObjectIds == 1..(MaxAlerts + 1)

\* An identity no entry of the list has.
FreshId == CHOOSE id \in ObjectIds : \A k \in 1..Len(ids) : ids[k] # id

\* What the program outside the manager keeps as it is.
Outside == <<gmail, clock, transport, message, delivered, paths, times, evalLog, evalPath, outbox,
             threads>>

InitManage ==
    /\ alerts = << >>
    /\ ids = << >>
    /\ gmail = TRUE
    /\ clock = 0
    /\ transport = "running"
    /\ message = NoMessage
    /\ delivered = 0
    /\ paths = << >>
    /\ times = << >>
    /\ evalLog = << >>
    /\ evalPath = << >>
    /\ outbox = << >>
    /\ loaded = << >>
    /\ other = NoneObj
    /\ last = NoCall
    /\ threads = Idle

\* manager.add(Alert(topic, condition, email, period_minimum,
\* period_maximum)): when the constructor raises there is no object and add
\* is not reached.
New ==
    /\ Len(alerts) < MaxAlerts
    /\ \E dest \in NewDestinations, condition \in NewConditions :
         \E r \in { AlertNew(dest.topic, condition, dest.email, 2, 4, clock, clock) } :
            /\ alerts' = IF r.raised THEN alerts ELSE Append(alerts, r.alert)
            /\ ids' = IF r.raised THEN ids ELSE Append(ids, FreshId)
            /\ last' = [op |-> "new", flip |-> 1 - last.flip,
                        args |-> [topic |-> dest.topic, condition |-> condition,
                                  email |-> dest.email],
                        at |-> 0, raised |-> r.raised, error |-> r.error]
    /\ loaded' = << >>
    /\ other' = NoneObj
    /\ UNCHANGED Outside

\* manager.add(alert) with an alert the list holds already.
AddAgain ==
    /\ Len(alerts) < MaxAlerts
    /\ \E k \in 1..Len(alerts) :
         /\ alerts' = Append(alerts, alerts[k])
         /\ ids' = Append(ids, ids[k])
         /\ last' = [op |-> "add", flip |-> 1 - last.flip, args |-> NoArgs,
                     at |-> ids[k], raised |-> FALSE, error |-> ""]
    /\ loaded' = << >>
    /\ other' = NoneObj
    /\ UNCHANGED Outside

\* manager.remove(alert): self._alerts.remove(alert), which raises
\* ValueError when the list does not hold the object.
Remove ==
    /\ \E id \in ObjectIds :
         LET present == \E k \in 1..Len(ids) : ids[k] = id
         IN  /\ alerts' = IF present THEN Without(alerts, FirstIndex(ids, id)) ELSE alerts
             /\ ids' = IF present THEN Without(ids, FirstIndex(ids, id)) ELSE ids
             /\ last' = [op |-> "remove", flip |-> 1 - last.flip, args |-> NoArgs,
                         at |-> id, raised |-> ~present,
                         error |-> IF present THEN "" ELSE "ValueError"]
    /\ loaded' = << >>
    /\ other' = NoneObj
    /\ UNCHANGED Outside

\* fresh = AlertManager(); fresh.from_dict(manager.to_dict())
ExportImportDict ==
    /\ \E r \in { ManagerFromDict(<< >>, ManagerToDict(alerts), clock) } :
         /\ loaded' = r.list
         /\ last' = [op |-> "dict", flip |-> 1 - last.flip, args |-> NoArgs,
                     at |-> 0, raised |-> r.raised, error |-> r.error]
    /\ other' = NoneObj
    /\ UNCHANGED <<alerts, ids>>
    /\ UNCHANGED Outside

\* fresh = AlertManager(); fresh.from_json(manager.to_json())
ExportImportJson ==
    /\ \E r \in { ManagerFromJson(<< >>, ManagerToJson(alerts), clock) } :
         /\ loaded' = r.list
         /\ last' = [op |-> "json", flip |-> 1 - last.flip, args |-> NoArgs,
                     at |-> 0, raised |-> r.raised, error |-> r.error]
    /\ other' = NoneObj
    /\ UNCHANGED <<alerts, ids>>
    /\ UNCHANGED Outside

\* other = Alert(); other.from_dict(alert.to_dict()) for the alert at
\* position k of the list.
CopyByDict ==
    /\ \E k \in 1..Len(alerts) :
         \E r \in { AlertFromDict(AlertInit(None, None, None, PeriodMinimumDefault,
                                            PeriodMaximumDefault, clock, clock),
                                  AlertToDict(alerts[k])) } :
            /\ other' = AlertObj(r.alert)
            /\ last' = [op |-> "copy", flip |-> 1 - last.flip, args |-> NoArgs,
                        at |-> k, raised |-> r.raised, error |-> r.error]
    /\ loaded' = << >>
    /\ UNCHANGED <<alerts, ids>>
    /\ UNCHANGED Outside

\* alert.condition = value for the alert at position k of the list; the
\* object may be in the list more than once.
SetCondition ==
    /\ \E k \in 1..Len(alerts), value \in NewConditions :
         \E r \in { ConditionSet(alerts[k], value) } :
            /\ alerts' = [j \in 1..Len(alerts) |-> IF ids[j] = ids[k] THEN r.alert ELSE alerts[j]]
            /\ last' = [op |-> "set", flip |-> 1 - last.flip,
                        args |-> [topic |-> None, condition |-> value, email |-> None],
                        at |-> ids[k], raised |-> r.raised, error |-> r.error]
    /\ loaded' = << >>
    /\ other' = NoneObj
    /\ UNCHANGED ids
    /\ UNCHANGED Outside

NextManage ==
    \/ New \/ AddAgain \/ Remove \/ SetCondition
    \/ ExportImportDict \/ ExportImportJson \/ CopyByDict

SpecManage == InitManage /\ [][NextManage]_vars

---------------------------------------------------------------------------
(* Messages that keep arriving while time goes on *)

\* Alert.check looks at differences of clock readings only, and no period
\* is longer than MaxClock.  So that time can go on for ever, the clock
\* stays at MaxClock and a tick moves every reading that is kept one tick
\* into the past instead, down to 0: a reading MaxClock ticks old or older.
Earlier(t) == IF t > 0 THEN t - 1 ELSE 0

InitLive ==
    /\ \E mgr \in Managers(MaxClock, MaxClock) :
         /\ alerts = mgr.alerts
         /\ gmail = mgr.gmail
    /\ clock = MaxClock
    /\ transport = "running"
    /\ message = NoMessage
    /\ delivered = 0
    /\ paths = [i \in 1..Len(alerts) |-> "NotRun"]
    /\ times = [i \in 1..Len(alerts) |-> 0]
    /\ evalLog = [i \in 1..Len(alerts) |-> << >>]
    /\ evalPath = [i \in 1..Len(alerts) |-> "NotRun"]
    /\ outbox = << >>
    /\ ids = [i \in 1..Len(alerts) |-> i]
    /\ loaded = << >>
    /\ other = NoneObj
    /\ last = NoCall
    /\ threads = Idle

\* Time passes between two messages.
TickLive ==
    /\ alerts' = [i \in 1..Len(alerts) |->
                    [alerts[i] EXCEPT !.message_last_received = Earlier(@),
                                      !.message_last_check = Earlier(@)]]
    /\ times' = [i \in 1..Len(alerts) |-> Earlier(times[i])]
    /\ evalLog' = [i \in 1..Len(alerts) |->
                     [k \in 1..Len(evalLog[i]) |-> Earlier(evalLog[i][k])]]
    /\ UNCHANGED <<gmail, clock, transport, message, delivered, paths, evalPath, outbox>>
    /\ UNCHANGED mvars

\* A message on alert i's topic, with a value that meets its condition,
\* is handled with no failing send and reaches the alert.
DeliverSatisfying(i) ==
    /\ i \in 1..Len(alerts)
    /\ \E topic \in MsgTopics, data \in MsgData :
         /\ ~TopicMismatch(alerts[i], [topic |-> topic])
         /\ alerts[i].condition # None
         /\ alerts[i].variable \in DOMAIN data
         /\ PyEval(ValStr(data[alerts[i].variable]) \o alerts[i].expr) = "true"
         /\ Handle(topic, data, [k \in 1..Len(alerts) |-> 0], 0)
         /\ paths'[i] # "NotRun"

NextLive == TickLive \/ Deliver

\* Time goes on.
SpecLive ==
    /\ InitLive
    /\ [][NextLive]_vars
    /\ WF_vars(TickLive)

---------------------------------------------------------------------------
(* Two threads that deliver messages to one manager *)

\* Neither Alert.check nor AlertManager._mqtt_message_handler takes a lock:
\* when two threads call the handler, the statements of the two calls of
\* Alert.check on one alert interleave.  Each thread handles a message on
\* the alert's topic; the statements up to the period check are steps of
\* their own, the rest of the method is one step.
InitConcurrent ==
    /\ alerts = << AlertInit(TopicA, CondTlt3, Addr, 2, 4, 0, 0) >>
    /\ ids = <<1>>
    /\ gmail = TRUE
    /\ clock = 0
    /\ transport = "running"
    /\ message = NoMessage
    /\ delivered = 0
    /\ paths = <<"NotRun">>
    /\ times = <<0>>
    /\ evalLog = << << >> >>
    /\ evalPath = <<"NotRun">>
    /\ outbox = << >>
    /\ loaded = << >>
    /\ other = NoneObj
    /\ last = NoCall
    /\ threads = Idle

\* What the threads' steps leave alone.
Elsewhere == <<gmail, transport, message, delivered, paths, times, evalLog, evalPath, outbox,
               ids, loaded, other, last>>

TickConcurrent ==
    /\ clock < MaxClock
    /\ clock' = clock + 1
    /\ UNCHANGED <<alerts, threads>>
    /\ UNCHANGED Elsewhere

\* now = dt.datetime.now(), the topic test passed.
ReadClock(w) ==
    /\ threads[w].pc = "idle"
    /\ ~TopicMismatch(alerts[1], [topic |-> TopicA])
    /\ threads' = [threads EXCEPT ![w] = [pc |-> "received", now |-> clock, passed |-> FALSE]]
    /\ UNCHANGED <<alerts, clock>>
    /\ UNCHANGED Elsewhere

\* self._message_last_received = now
SetReceived(w) ==
    /\ threads[w].pc = "received"
    /\ alerts' = [alerts EXCEPT ![1] = MarkReceived(alerts[1], threads[w].now)]
    /\ threads' = [threads EXCEPT ![w].pc = "test"]
    /\ UNCHANGED clock
    /\ UNCHANGED Elsewhere

\* if now - self.message_last_check < self.period_minimum: return
TestPeriod(w) ==
    /\ threads[w].pc = "test"
    /\ threads' = [threads EXCEPT ![w].pc =
                      IF WithinPeriodMinimum(alerts[1], threads[w].now) THEN "idle" ELSE "mark"]
    /\ UNCHANGED <<alerts, clock>>
    /\ UNCHANGED Elsewhere

\* self._message_last_check = now
SetChecked(w) ==
    /\ threads[w].pc = "mark"
    /\ alerts' = [alerts EXCEPT ![1] = MarkChecked(alerts[1], threads[w].now)]
    /\ threads' = [threads EXCEPT ![w].pc = "rest", ![w].passed = TRUE]
    /\ UNCHANGED clock
    /\ UNCHANGED Elsewhere

\* The rest of Alert.check: the condition and the e-mail.
Rest(w) ==
    /\ threads[w].pc = "rest"
    /\ threads' = [threads EXCEPT ![w].pc = "idle"]
    /\ UNCHANGED <<alerts, clock>>
    /\ UNCHANGED Elsewhere

NextConcurrent ==
    \/ TickConcurrent
    \/ \E w \in Workers : ReadClock(w)
    \/ \E w \in Workers : SetReceived(w)
    \/ \E w \in Workers : TestPeriod(w)
    \/ \E w \in Workers : SetChecked(w)
    \/ \E w \in Workers : Rest(w)

SpecConcurrent == InitConcurrent /\ [][NextConcurrent]_vars

---------------------------------------------------------------------------
(* Vocabulary of the properties *)

\* The alert took the message as one on its topic.
Matched(path) == path \notin {"NotRun", "NoMatch"}

\* The exits of Alert.check after the condition was met.
TriggeredPaths == {"NoSink", "NoEmail", "Sent", "SendFailed"}

\* The exits of Alert.check on which Gmail.email_send was called.
SinkCallPaths == {"Sent", "SendFailed"}

\* The message carries the alert's field with a value that meets its condition.
Satisfies(a, m) ==
    /\ a.condition # None
    /\ a.variable \in DOMAIN m.data
    /\ PyEval(ValStr(m.data[a.variable]) \o a.expr) = "true"

\* An MQTT topic filter that ends in the multi-level wildcard matches the
\* topics under its prefix.
WildcardMatches(filter, topic) ==
    /\ filter # None
    /\ Len(filter) >= 1
    /\ filter[Len(filter)] = "#"
    /\ Len(topic) >= Len(filter) - 1
    /\ SubSeq(topic, 1, Len(filter) - 1) = SubSeq(filter, 1, Len(filter) - 1)

Range == 1..Len(alerts)

\* The step hands a message to the manager.
Delivery == delivered' # delivered

---------------------------------------------------------------------------
(* C1 *)

\* C1 as stated: of two successive messages on an alert's topic that it
\* checks less than period_minimum apart, the second is Suppressed and the
\* two are not both Triggered.  Stated for an alert that has passed a
\* check before, so that the time of construction plays no part.
C1_AnyPairSecondSuppressed ==
    [][Delivery =>
         \A i \in Range :
            (/\ Matched(paths[i]) /\ Matched(paths'[i])
             /\ evalLog[i] # << >>
             /\ times'[i] - times[i] < alerts[i].period_minimum)
            => /\ paths'[i] = "Suppressed"
               /\ ~(paths[i] \in TriggeredPaths /\ paths'[i] \in TriggeredPaths)]_vars

\* C1 (amended): a message on an alert's topic that the alert checks less
\* than period_minimum after a check of it that passed the period check
\* (one that was not itself suppressed) is Suppressed; so two such messages
\* less than period_minimum apart are never both Triggered.
C1_SuppressedAfterEvaluation ==
    [][Delivery =>
         \A i \in Range :
            (/\ Matched(paths'[i])
             /\ evalLog[i] # << >>
             /\ times'[i] - evalLog[i][Len(evalLog[i])] < alerts[i].period_minimum)
            => paths'[i] = "Suppressed"]_vars

\* C1 witness: an alert with a condition was Triggered, and its next message,
\* one reading later, was Suppressed.
C1_Witness ==
    \E i \in Range :
       /\ alerts[i].period_minimum = 2
       /\ paths[i] = "Suppressed"
       /\ evalLog[i] # << >>
       /\ times[i] = evalLog[i][Len(evalLog[i])] + 1
       /\ Satisfies(alerts[i], message)

---------------------------------------------------------------------------
(* C2 *)

\* C2: any two checks of an alert that passed the period check are at least
\* period_minimum apart, and an e-mail is sent only in such a check.
C2_EvaluationsSeparated ==
    \A i \in Range :
       /\ Len(evalLog[i]) = 2 => evalLog[i][2] - evalLog[i][1] >= alerts[i].period_minimum
       /\ paths[i] \in SinkCallPaths =>
             /\ evalLog[i] # << >>
             /\ evalLog[i][Len(evalLog[i])] = times[i]

\* C2 witness: an alert with period_minimum 2 has sent its second e-mail.
C2_Witness ==
    \E i \in Range :
       /\ alerts[i].period_minimum = 2
       /\ Len(evalLog[i]) = 2
       /\ paths[i] = "Sent"

---------------------------------------------------------------------------
(* C3 *)

\* C3 as stated: when Alert.check raises for one alert (the message lacks
\* the field, or the comparison fails to evaluate), every later alert is
\* still checked for that message.
C3_ErrorDoesNotStopLaterAlerts ==
    \A i, j \in Range :
       (i < j /\ paths[i] \in {"MissingField", "EvalError"}) => paths[j] # "NotRun"

---------------------------------------------------------------------------
(* C4 *)

\* C4 as stated: when Gmail.email_send raises for a Triggered alert, the
\* alerts after it are still checked for that message.
C4_SinkFailureDoesNotStopLaterAlerts ==
    \A i, j \in Range :
       (i < j /\ paths[i] = "SendFailed") => paths[j] # "NotRun"

---------------------------------------------------------------------------
(* C5 *)

\* C5 as stated: the first message delivered after construction, on the
\* alert's topic and with a field value that meets the condition, is
\* Triggered however soon it arrives.
C5_FirstMessageTriggers ==
    [][(Delivery /\ message.topic = None) =>
         \A i \in Range :
            (Matched(paths'[i]) /\ Satisfies(alerts[i], message'))
            => paths'[i] \in TriggeredPaths]_vars

---------------------------------------------------------------------------
(* C6 *)

\* C6 as stated: an alert whose topic ends in the wildcard takes every
\* message whose topic has its prefix; NoMatch is only for topics that
\* neither equal the filter nor have its prefix.
C6_WildcardPrefixMatches ==
    \A i \in Range :
       (paths[i] # "NotRun" /\ WildcardMatches(alerts[i].topic, message.topic))
       => Matched(paths[i])

---------------------------------------------------------------------------
(* C7 *)

\* C7 as stated: an alert whose topic is None or the empty string takes the
\* message on every topic and sets message_last_received.
C7_NoneOrEmptyMatchesAll ==
    \A i \in Range :
       (paths[i] # "NotRun" /\ alerts[i].topic \in {None, Empty})
       => /\ Matched(paths[i])
          /\ alerts[i].message_last_received = times[i]

\* C7 (amended): an alert whose topic is None takes the message on every
\* topic and sets message_last_received.
C7_NoneMatchesAll ==
    \A i \in Range :
       (paths[i] # "NotRun" /\ alerts[i].topic = None)
       => /\ Matched(paths[i])
          /\ alerts[i].message_last_received = times[i]

\* C7 witness: an alert with no topic was checked for messages on both
\* topics, the last of them on another alert's topic.
C7_Witness ==
    \E i, j \in Range :
       /\ alerts[i].topic = None
       /\ alerts[j].topic = TopicA
       /\ message.topic = TopicB
       /\ Matched(paths[i])
       /\ times[i] > 0
       /\ alerts[i].message_last_received = times[i]

---------------------------------------------------------------------------
(* C8 *)

\* C8: a message whose topic differs from an alert's topic leaves the
\* alert's message_last_received and message_last_check as they were.
C8_MismatchLeavesTimestamps ==
    [][\A i \in Range :
          (alerts[i].topic # None /\ message'.topic # alerts[i].topic)
          => /\ alerts'[i].message_last_received = alerts[i].message_last_received
             /\ alerts'[i].message_last_check = alerts[i].message_last_check]_vars

\* C8 witness: an alert that had passed a check was then given a message on
\* another topic, at a later clock reading.
C8_Witness ==
    \E i \in Range :
       /\ alerts[i].topic = TopicA
       /\ message.topic = TopicB
       /\ paths[i] = "NoMatch"
       /\ evalLog[i] # << >>
       /\ clock > alerts[i].message_last_received

---------------------------------------------------------------------------
(* C9 *)

\* C9 as stated: once the topic matches, message_last_received is the
\* message's own timestamp.
C9_ReceivedIsMessageTimestamp ==
    \A i \in Range :
       Matched(paths[i]) => alerts[i].message_last_received = message.timestamp

\* C9 (amended): once the topic matches, message_last_received is the clock
\* reading Alert.check took for the message, which is not before the
\* message's timestamp, whichever exit the check then takes.
C9_ReceivedIsCheckReading ==
    \A i \in Range :
       Matched(paths[i]) =>
          /\ alerts[i].message_last_received = times[i]
          /\ times[i] >= message.timestamp

\* C9 witness: a suppressed message and a message that raised, each with
\* message_last_received at the check's reading, later than the timestamp.
C9_Witness ==
    \E i, j \in Range :
       /\ paths[i] = "Suppressed"
       /\ paths[j] \in {"MissingField", "EvalError"}
       /\ alerts[i].message_last_received = times[i]
       /\ alerts[j].message_last_received = times[j]
       /\ times[i] > message.timestamp
       /\ alerts[i].message_last_check < times[i]

---------------------------------------------------------------------------
(* C10 *)

\* C10 as stated: an alert with no condition, an address and a Gmail client
\* calls email_send for every message on its topic that passes the period
\* check.
C10_NoConditionNotifies ==
    \A i \in Range :
       (/\ alerts[i].condition = None
        /\ ~NoEmail(alerts[i])
        /\ gmail
        /\ paths[i] \in EvaluatedPaths)
       => paths[i] \in SinkCallPaths

---------------------------------------------------------------------------
(* C11 *)

\* C11: an alert with no email, or checked by a manager with no Gmail
\* client, makes no call of email_send, and a message on its topic moves its
\* time stamps as it does for any alert: message_last_received to the
\* reading the check took, and message_last_check to it as well when the
\* period check was passed; a value that meets its condition takes it to
\* the exit behind the condition.
C11_NoDestinationNoSinkCall ==
    \A i \in Range :
       (alerts[i].email \in {None, Empty} \/ ~gmail)
       => /\ \A k \in 1..Len(outbox) : outbox[k].alert # i
          /\ paths[i] \notin SinkCallPaths
          /\ Matched(paths[i]) => alerts[i].message_last_received = times[i]
          /\ paths[i] \in EvaluatedPaths => alerts[i].message_last_check = times[i]
          /\ (paths[i] \in EvaluatedPaths /\ Satisfies(alerts[i], message))
                => paths[i] \in {"NoSink", "NoEmail"}

\* C11 witness: an alert with no email, in a manager with a Gmail client,
\* has met its condition on a message after its construction.
C11_Witness ==
    \E i \in Range :
       /\ alerts[i].email = None
       /\ gmail
       /\ Satisfies(alerts[i], message)
       /\ paths[i] = "NoEmail"
       /\ times[i] > 0
       /\ alerts[i].message_last_check = times[i]
       /\ outbox = << >>

---------------------------------------------------------------------------
(* C12 *)

\* C12: the handler checks the alerts in the order of the list, and for
\* every alert with an email, in a manager with a Gmail client, whose
\* condition the message met on a check that passed the period check, the
\* outbox holds exactly one call, addressed to that alert's email; it holds
\* none for an alert that took the NoMatch, Suppressed or ConditionNotMet
\* exit, and the calls are in the order of the alerts.
C12_OneCallPerTriggeredAlert ==
    /\ \A i \in Range :
          LET mine == {k \in 1..Len(outbox) : outbox[k].alert = i}
          IN  /\ (/\ paths[i] \in EvaluatedPaths
                  /\ Satisfies(alerts[i], message)
                  /\ gmail
                  /\ ~NoEmail(alerts[i]))
                 => /\ Cardinality(mine) = 1
                    /\ \A k \in mine : outbox[k].call.to = alerts[i].email
              /\ paths[i] \in {"NoMatch", "Suppressed", "ConditionNotMet"} => mine = {}
    /\ \A k, l \in 1..Len(outbox) : k < l => outbox[k].alert < outbox[l].alert
    /\ \A i, j \in Range :
          (i < j /\ paths[j] # "NotRun") => (paths[i] # "NotRun" /\ times[i] <= times[j])

\* C12 witness: one message made two alerts with different emails call
\* email_send, the first alert first and the second later.
C12_Witness ==
    /\ Len(outbox) = 2
    /\ outbox[1].alert = 1 /\ outbox[1].call.to = Addr
    /\ outbox[2].alert = 2 /\ outbox[2].call.to = Addr2
    /\ times[1] < times[2]

---------------------------------------------------------------------------
(* C13 *)

\* C13 as stated: after to_dict and from_dict into a fresh manager, and
\* after to_json and from_json into one, the fresh manager holds as many
\* alerts as the first, in the same order, each with the same topic,
\* condition, email and periods.
C13_ExportImportReproduces ==
    last.op \in {"dict", "json"}
    => /\ ~last.raised
       /\ Len(loaded) = Len(alerts)
       /\ \A k \in 1..Len(loaded) :
             /\ loaded[k].type = "Alert"
             /\ loaded[k].alert.topic = alerts[k].topic
             /\ loaded[k].alert.condition = alerts[k].condition
             /\ loaded[k].alert.email = alerts[k].email
             /\ loaded[k].alert.period_minimum = alerts[k].period_minimum
             /\ loaded[k].alert.period_maximum = alerts[k].period_maximum

---------------------------------------------------------------------------
(* C14 *)

\* A condition of the form <ident><op><value>: a nonempty identifier, one
\* of the six operators, a nonempty value.
WellFormed(condition) ==
    /\ condition # None
    /\ FirstNonIdent(condition) > 1
    /\ LET rst == SubSeq(condition, FirstNonIdent(condition), Len(condition))
       IN  LeadingOp(rst) # Empty /\ Len(rst) > Len(LeadingOp(rst))

\* The operator and the value of an alert's condition.
OperatorOf(a) == LeadingOp(a.expr)
ValueOf(a)    == SubSeq(a.expr, Len(LeadingOp(a.expr)) + 1, Len(a.expr))

\* C14 as stated: the constructor accepts every condition of the form
\* <ident><op><value>, and the other alert that from_dict fills from the
\* to_dict of an alert with such a condition has the same variable,
\* operator and value.
C14_ConditionSurvivesCopy ==
    /\ (last.op = "new" /\ WellFormed(last.args.condition)) => ~last.raised
    /\ (last.op = "copy" /\ WellFormed(alerts[last.at].condition))
       => /\ ~last.raised
          /\ other.type = "Alert"
          /\ other.alert.variable = alerts[last.at].variable
          /\ OperatorOf(other.alert) = OperatorOf(alerts[last.at])
          /\ ValueOf(other.alert) = ValueOf(alerts[last.at])

---------------------------------------------------------------------------
(* C15 *)

\* A condition whose first character is no identifier character, or that
\* has no character but identifier characters.
NoBoundary(condition) ==
    /\ condition # None
    /\ FirstNonIdent(condition) \in {0, 1}

\* C15 as stated: the constructor given such a condition raises the error
\* of an invalid condition, ValueError, and no alert comes to the list.
C15_NoBoundaryRejected ==
    [][(last'.flip # last.flip /\ last'.op = "new" /\ NoBoundary(last'.args.condition))
       => /\ last'.raised
          /\ last'.error = "ValueError"
          /\ alerts' = alerts]_vars

---------------------------------------------------------------------------
(* C16 *)

\* C16 as stated: every alert of the list that has a condition has an
\* expression that starts with one of the six operators.
C16_OperatorFromFixedSet ==
    \A k \in 1..Len(alerts) :
       alerts[k].condition # None => OperatorOf(alerts[k]) # Empty

---------------------------------------------------------------------------
(* C17 *)

\* A value meets a condition's expression when both sides are numbers and
\* compare so, or when they are not both numbers and compare so as text.
MeetsAsNumberOrText(val, expr) ==
    LET op  == LeadingOp(expr)
        rhs == SubSeq(expr, Len(op) + 1, Len(expr))
    IN  /\ op # Empty
        /\ IF IsNumber(val) /\ IsNumber(rhs)
           THEN Compare(op, DigitsValue(val), DigitsValue(rhs))
           ELSE \/ op = <<"=", "=">> /\ val = rhs
                \/ op = <<"!", "=">> /\ val # rhs

\* C17 as stated: a check that passed the period check, of a message that
\* carries the alert's field with a value that meets the condition as a
\* number or as text, takes an exit behind the condition, and the alert's
\* email is sent to when it has one and the manager a Gmail client: so for
\* the condition "s==o" with period_minimum 0 and the value "o".
C17_TextComparisonTriggers ==
    \A i \in Range :
       (/\ paths[i] \in EvaluatedPaths
        /\ alerts[i].condition # None
        /\ alerts[i].variable \in DOMAIN message.data
        /\ MeetsAsNumberOrText(ValStr(message.data[alerts[i].variable]), alerts[i].expr))
       => /\ paths[i] \in TriggeredPaths
          /\ (gmail /\ ~NoEmail(alerts[i]))
               => \E k \in 1..Len(outbox) :
                     outbox[k].alert = i /\ outbox[k].call.to = alerts[i].email

---------------------------------------------------------------------------
(* C18 *)

\* C18 as stated: whatever the message, Alert.check changes nothing of an
\* alert but its two time stamps: no text of the message or the condition
\* is run as code.
C18_CheckOnlyMovesTimeStamps ==
    [][/\ Len(alerts') = Len(alerts)
       /\ gmail' = gmail
       /\ \A i \in Range :
             alerts'[i] = [alerts[i] EXCEPT
                             !.message_last_received = alerts'[i].message_last_received,
                             !.message_last_check = alerts'[i].message_last_check]]_vars

---------------------------------------------------------------------------
(* C19 *)

---------------------------------------------------------------------------
(* C20 *)

\* C20 as stated: Alert.check returns True when the message is on the
\* alert's topic, the period check is passed and the condition is met, and
\* it returns something else on the NoMatch, Suppressed and ConditionNotMet
\* exits.
C20_ReturnsTrueOnMatch ==
    \A i \in Range :
       /\ (/\ paths[i] \in EvaluatedPaths \ RaisingPaths
           /\ Satisfies(alerts[i], message))
          => ReturnValue(paths[i]) = "True"
       /\ paths[i] \in {"NoMatch", "Suppressed", "ConditionNotMet"}
          => ReturnValue(paths[i]) # "True"

---------------------------------------------------------------------------
(* C21 *)

\* C21: an alert's message_last_check changes only in a check of a message
\* on its topic that passes the period check, and then to the reading that
\* check took; a check that takes the NoMatch or the Suppressed exit, and
\* a message that does not reach the alert, leave it as it was.
C21_LastCheckMovesOnlyWhenEvaluated ==
    [][\A i \in Range :
          /\ alerts'[i].message_last_check # alerts[i].message_last_check
             => /\ Delivery
                /\ paths'[i] \in EvaluatedPaths
                /\ alerts'[i].message_last_check = times'[i]
          /\ (Delivery /\ paths'[i] \in {"NotRun", "NoMatch", "Suppressed"})
             => alerts'[i].message_last_check = alerts[i].message_last_check]_vars

\* C21 witness: a message on the alert's topic was suppressed after an
\* earlier evaluation, and message_last_check is still the reading of that
\* evaluation while message_last_received has moved on.
C21_Witness ==
    \E i \in Range :
       /\ paths[i] = "Suppressed"
       /\ evalLog[i] # << >>
       /\ alerts[i].message_last_check = evalLog[i][Len(evalLog[i])]
       /\ alerts[i].message_last_received = times[i]
       /\ alerts[i].message_last_received > alerts[i].message_last_check

---------------------------------------------------------------------------
(* C22 *)

\* The exits of a check that passed the period check and sent nothing
\* because of the condition: it was not met, there was none, or the
\* message did not carry the field.
AttemptPaths == {"ConditionNotMet", "NoCondition", "MissingField"}

\* C22: a check that passed the period check and took the ConditionNotMet,
\* NoCondition or MissingField exit has set message_last_check to the
\* reading it took, and every later message on the alert's topic that it
\* checks less than period_minimum after that reading is Suppressed, also
\* when its value meets the condition.
C22_AttemptCountsAgainstWindow ==
    [][Delivery =>
         \A i \in Range :
            /\ paths'[i] \in AttemptPaths
               => /\ alerts'[i].message_last_check = times'[i]
                  /\ evalPath'[i] = paths'[i]
            /\ (/\ evalPath[i] \in AttemptPaths
                /\ Matched(paths'[i])
                /\ times'[i] - evalLog[i][Len(evalLog[i])] < alerts[i].period_minimum)
               => /\ paths'[i] = "Suppressed"
                  /\ alerts'[i].message_last_check = evalLog[i][Len(evalLog[i])]]_vars

\* C22 witness: the alert's last evaluation found the condition not met;
\* an earlier message in its window was suppressed already, and now a
\* message whose value meets the condition is suppressed, one tick before
\* the window ends.
C22_Witness ==
    \E i \in Range :
       /\ evalPath[i] = "ConditionNotMet"
       /\ paths[i] = "Suppressed"
       /\ Satisfies(alerts[i], message)
       /\ alerts[i].period_minimum >= 2
       /\ times[i] = alerts[i].message_last_check + alerts[i].period_minimum - 1

---------------------------------------------------------------------------
(* C23 *)

\* C23 as stated: of the last checks of two threads on one alert, taken
\* less than period_minimum apart, at most one has passed the period
\* check.
C23_AtMostOnePassesInWindow ==
    \A v, w \in Workers :
       (/\ v # w
        /\ threads[v].passed
        /\ threads[w].passed
        /\ threads[v].now <= threads[w].now)
       => threads[w].now - threads[v].now >= alerts[1].period_minimum

---------------------------------------------------------------------------
(* C24 *)

\* An alert's condition, variable and expression are all unset, or the
\* condition is the variable followed by the expression and the variable
\* is not empty.
PartsConsistent(a) ==
    \/ a.condition = None /\ a.variable = None /\ a.expr = None
    \/ /\ a.condition # None /\ a.variable # None /\ a.expr # None
       /\ Len(a.variable) >= 1
       /\ a.condition = a.variable \o a.expr

\* C24: the three are consistent for every alert of the list in every
\* state, and an assignment to the condition that raises leaves every
\* alert as it was.
C24_ConditionPartsConsistent ==
    [][/\ \A k \in 1..Len(alerts) : PartsConsistent(alerts[k])
       /\ \A k \in 1..Len(alerts') : PartsConsistent(alerts'[k])
       /\ (last'.flip # last.flip /\ last'.op = "set" /\ last'.raised) => alerts' = alerts]_vars

\* C24 witness: an assignment of a condition with no variable to an alert
\* that has a condition raised ValueError, and the alert has its condition
\* still.
C24_Witness ==
    /\ last.op = "set"
    /\ last.raised
    /\ last.error = "ValueError"
    /\ \E k \in 1..Len(alerts) :
          /\ ids[k] = last.at
          /\ alerts[k].condition = CondSeqO
          /\ alerts[k].variable = FieldS

---------------------------------------------------------------------------
(* C26 *)

\* C26 as stated: whatever the payload, Mqtt._on_mqtt_message returns: no
\* exception leaves it and ends the delivery of messages.
C26_HandlerAlwaysReturns == transport = "running"

---------------------------------------------------------------------------
(* C27 *)

\* C27: a check of a message on the alert's topic leaves
\* message_last_check <= message_last_received, and no later step undoes
\* it.
C27_CheckedNotAfterReceived ==
    [][\A i \in Range :
          /\ (Delivery /\ Matched(paths'[i]))
             => alerts'[i].message_last_check <= alerts'[i].message_last_received
          /\ alerts[i].message_last_check <= alerts[i].message_last_received
             => alerts'[i].message_last_check <= alerts'[i].message_last_received]_vars

\* C27 witness: the constructor read the clock twice, a tick apart, so that
\* message_last_check was after message_last_received; the first message
\* on the alert's topic was suppressed and has put message_last_received
\* past it.
C27_Witness ==
    \E i \in Range :
       /\ paths[i] = "Suppressed"
       /\ evalLog[i] = << >>
       /\ alerts[i].message_last_check = 1
       /\ alerts[i].message_last_received > alerts[i].message_last_check

---------------------------------------------------------------------------
(* C25 *)

\* Alert i has an email, and its manager a Gmail client.
CanNotify(i) ==
    /\ i \in 1..Len(alerts)
    /\ gmail
    /\ ~NoEmail(alerts[i])

\* A check of alert i passes the period check.
Evaluates(i) == Delivery /\ i \in 1..Len(alerts) /\ paths'[i] \in EvaluatedPaths

\* A check of alert i calls email_send.
Notifies(i) == Delivery /\ i \in 1..Len(alerts) /\ paths'[i] \in SinkCallPaths

\* C25 as stated: while time goes on and messages on its topic that meet
\* its condition keep reaching an alert that has an email and a Gmail
\* client, the alert calls email_send again and again.
C25_NotifiesAgain ==
    \A i \in 1..MaxAlerts :
       (CanNotify(i) /\ []<><<DeliverSatisfying(i)>>_vars) => []<><<Notifies(i)>>_vars

\* C25 (amended): while time goes on and messages on its topic that meet
\* its condition keep reaching an alert, a check of the alert passes the
\* period check again and again.
C25_EvaluatedAgain ==
    \A i \in 1..MaxAlerts :
       []<><<DeliverSatisfying(i)>>_vars => []<><<Evaluates(i)>>_vars

\* C25 witness: the alert called email_send in a check that passed the
\* period check a full period after the check before it that did.
C25_Witness ==
    \E i \in Range :
       /\ CanNotify(i)
       /\ Satisfies(alerts[i], message)
       /\ paths[i] = "Sent"
       /\ Len(evalLog[i]) = 2
       /\ alerts[i].period_minimum > 0
       /\ evalLog[i][2] = clock
       /\ evalLog[i][2] - evalLog[i][1] = alerts[i].period_minimum

====
